---- MODULE Spec2Model ----
(***************************************************************************)
(* Model of examples/python/advanced_client.py: the bounded-concurrency    *)
(* batch dispatcher (process_batch), the retrying request executor         *)
(* (_make_request under the tenacity retry decorator) and ClientStats.     *)
(***************************************************************************)
EXTENDS Integers, Sequences, FiniteSets, TLC

(* ------------------------------ bounds --------------------------------- *)
MaxItems == 3
MaxConcurrency == 2
Max429 == 1
MaxRateLimited == 4
MaxResets == 1
NumCalls == 3

(* --------------------------- batch dispatcher -------------------------- *)
VARIABLES
    items,          \* len(items): the batch holds indices 0 .. items-1
    concurrency,    \* the concurrency argument of process_batch
    bpc,            \* position of process_batch: call, gather, returned, raised
    sem_value,      \* asyncio.Semaphore._value
    sem_waiters,    \* asyncio.Semaphore._waiters (FIFO of task indices)
    tpc,            \* position of each process_item task
    nextStart,      \* index of the next task whose first step the loop runs
    invoked,        \* how often processor(item, index) was called per index
    opOutcome,      \* how the processor call of each index ended
    taskRet,        \* what each process_item task returned to gather
    completed,      \* the task indices in the order the tasks finished
    waited,         \* the task indices that have queued for a permit
    results,        \* the 'results' list of the returned dict
    errors          \* the 'errors' list of the returned dict

varsB == <<items, concurrency, bpc, sem_value, sem_waiters, tpc, nextStart,
           invoked, opOutcome, taskRet, completed, waited, results, errors>>

VARIABLES
    max_retries,    \* the max_retries argument of __init__ (self.max_retries)
    retry_delay,    \* the retry_delay argument of __init__ (self.retry_delay)
    calls,          \* the logical _make_request calls issued by callers
    stats,          \* self.stats (ClientStats)
    cpc,            \* position of each call: idle, io, sleep429, backoff, done
    stack,          \* per call: the nested _make_request invocations
    wait,           \* per call: the duration of the sleep it is suspended in
    clock,          \* per call: time.time() as seen by the call, from 0
    exchanges,      \* per call: how often session.request was entered
    seen,           \* per call: how many responses of each kind it has received
    last,           \* per call: the latest response it has received
    slept,          \* per call: total time spent in rate-limit sleeps
    transport,      \* the responses the transport stub may give
    callOutcome,    \* per call: what the call returned or raised
    ioTime,         \* per call: the summed durations of its exchanges
    readyAt,        \* per call: when the sleep it last entered is over
    rateLimitCap    \* how many 429 responses the server gives one call

varsE == <<max_retries, retry_delay, calls, stats, cpc, stack, wait, clock, exchanges,
           seen, last, slept, transport, callOutcome, ioTime, readyAt,
           rateLimitCap>>

VARIABLES
    session,        \* self.session: open or closed
    scope,          \* the 'async with client' block: outside, inside, or
                    \* the way it was left (normal, error, cancelled)
    resets,         \* how often reset_stats has been called
    perf,           \* what get_performance_stats returned last
    snapAt          \* the value of resets at that call

varsC == <<session, scope, resets, perf, snapAt>>

vars == <<varsB, varsE, varsC>>

NoIndex == -1
Indices == 0 .. (items - 1)
Outcomes == {"ok", "fail"}

(* process_item's return value for a processor outcome: the try/except of  *)
(* lines 270-274 turns an exception into a failure dict with the index.    *)
(* asyncio.CancelledError is no Exception and leaves the task cancelled;   *)
(* gather then yields the CancelledError object for that task.             *)
ProcessItemUncaught(index, outcome) ==
    IF outcome = "ok"
    THEN [kind |-> "dict", success |-> TRUE, index |-> index]
    ELSE [kind |-> "exception", success |-> FALSE, index |-> NoIndex]

ProcessItemReturn(index, outcome) ==
    IF outcome = "ok"
    THEN [kind |-> "dict", success |-> TRUE, index |-> index]
    ELSE IF outcome = "cancelled"
    THEN [kind |-> "cancelled", success |-> FALSE, index |-> NoIndex]
    ELSE [kind |-> "dict", success |-> FALSE, index |-> index]

NoRet == [kind |-> "none", success |-> FALSE, index |-> NoIndex]

(* asyncio.Semaphore(concurrency) raises ValueError for a negative value.  *)
SemaphoreRejects(value) == value < 0

(* Semaphore.locked(): no permit, or somebody is already queued.           *)
SemNeverLocked(value, waiters, pcs) == FALSE

SemLocked(value, waiters, pcs) ==
    \/ value = 0
    \/ waiters # <<>>
    \/ \E j \in DOMAIN pcs : pcs[j] = "woken"

(* Semaphore.release(): give the permit back and wake the first waiter,    *)
(* who takes the permit at once.  Yields <<value, waiters, woken>>.        *)
SemReleaseLeak(value, waiters) == <<value, waiters, {}>>

SemReleaseNoWake(value, waiters) == <<value + 1, waiters, {}>>

SemRelease(value, waiters) ==
    IF waiters # <<>>
    THEN <<value, Tail(waiters), {Head(waiters)}>>
    ELSE <<value + 1, waiters, {}>>

(* asyncio.gather with return_exceptions=True: results in input order.     *)
GatherCompletionOrder(ret, n) == [k \in 1 .. n |-> ret[completed[k]]]

GatherResults(ret, n) == [k \in 1 .. n |-> ret[k - 1]]

IsSuccess(r) == r.kind = "dict" /\ r.success
IsError(r) == ~IsSuccess(r)

(* The categorisation loop of lines 281-288.                               *)
CategorizeDropFailures(batch_results) ==
    [results |-> SelectSeq(batch_results, IsSuccess),
     errors  |-> SelectSeq(batch_results, LAMBDA r : r.kind = "exception")]

Categorize(batch_results) ==
    [results |-> SelectSeq(batch_results, IsSuccess),
     errors  |-> SelectSeq(batch_results, IsError)]

(* process_batch up to the await of gather (lines 262-278).  With no items *)
(* gather() is already done and the call runs through to its return.       *)
ProcessBatchCall ==
    /\ bpc = "call"
    /\ IF SemaphoreRejects(concurrency)
       THEN /\ bpc' = "raised"
            /\ UNCHANGED <<sem_value, tpc>>
       ELSE /\ sem_value' = concurrency
            /\ tpc' = [i \in Indices |-> "created"]
            /\ bpc' = IF items = 0 THEN "returned" ELSE "gather"
    /\ UNCHANGED <<items, concurrency, sem_waiters, nextStart, invoked,
                   opOutcome, taskRet, completed, waited, results, errors>>
    /\ UNCHANGED <<varsE, varsC>>

(* The processor of task i finishes with outcome o: process_item returns   *)
(* and 'async with semaphore' releases the permit.                         *)
FinishRetryOnFail(i, o, value, waiters, pcs) ==
    LET rel == SemRelease(value, waiters)
        again == o = "fail" /\ invoked[i] < 2 IN
    /\ opOutcome' = IF again THEN opOutcome ELSE [opOutcome EXCEPT ![i] = o]
    /\ taskRet' = IF again THEN taskRet
                  ELSE [taskRet EXCEPT ![i] = ProcessItemReturn(i, o)]
    /\ completed' = IF again THEN completed ELSE Append(completed, i)
    /\ waited' = waited
    /\ sem_value' = IF again THEN value ELSE rel[1]
    /\ sem_waiters' = IF again THEN waiters ELSE rel[2]
    /\ tpc' = [j \in Indices |->
                 IF j = i THEN (IF again THEN "woken" ELSE "done")
                 ELSE IF ~again /\ j \in rel[3] THEN "woken" ELSE pcs[j]]

Finish(i, o, value, waiters, pcs) ==
    LET rel == SemRelease(value, waiters) IN
    /\ opOutcome' = [opOutcome EXCEPT ![i] = o]
    /\ completed' = Append(completed, i)
    /\ waited' = waited
    /\ taskRet' = [taskRet EXCEPT ![i] = ProcessItemReturn(i, o)]
    /\ sem_value' = rel[1]
    /\ sem_waiters' = rel[2]
    /\ tpc' = [j \in Indices |->
                 IF j = i THEN "done"
                 ELSE IF j \in rel[3] THEN "woken" ELSE pcs[j]]

(* First step of task i (the loop runs first steps in creation order):     *)
(* acquire the semaphore or queue up; with a permit, call the processor,   *)
(* which suspends on its first await.                                      *)
TaskStart(i) ==
    /\ bpc = "gather"
    /\ i = nextStart
    /\ i \in Indices
    /\ nextStart' = nextStart + 1
    /\ IF SemLocked(sem_value, sem_waiters, tpc)
       THEN /\ sem_waiters' = Append(sem_waiters, i)
            /\ waited' = waited \cup {i}
            /\ tpc' = [tpc EXCEPT ![i] = "waiting"]
            /\ UNCHANGED <<sem_value, invoked>>
       ELSE /\ sem_value' = sem_value - 1
            /\ invoked' = [invoked EXCEPT ![i] = @ + 1]
            /\ tpc' = [tpc EXCEPT ![i] = "running"]
            /\ UNCHANGED <<sem_waiters, waited>>
    /\ UNCHANGED <<items, concurrency, bpc, opOutcome, taskRet, completed,
                   results, errors>>
    /\ UNCHANGED <<varsE, varsC>>

(* First step of task i when the processor never suspends: the task        *)
(* acquires, runs the processor to its end and releases in one step.       *)
TaskStartSync(i, o) ==
    /\ bpc = "gather"
    /\ i = nextStart
    /\ i \in Indices
    /\ ~SemLocked(sem_value, sem_waiters, tpc)
    /\ nextStart' = nextStart + 1
    /\ invoked' = [invoked EXCEPT ![i] = @ + 1]
    /\ Finish(i, o, sem_value - 1, sem_waiters, tpc)
    /\ UNCHANGED <<items, concurrency, bpc, results, errors>>
    /\ UNCHANGED <<varsE, varsC>>

(* A woken waiter resumes inside acquire() holding its permit and calls    *)
(* the processor, which suspends.                                          *)
TaskResume(i) ==
    /\ bpc = "gather"
    /\ i \in Indices
    /\ tpc[i] = "woken"
    /\ invoked' = [invoked EXCEPT ![i] = @ + 1]
    /\ tpc' = [tpc EXCEPT ![i] = "running"]
    /\ UNCHANGED <<items, concurrency, bpc, sem_value, sem_waiters, nextStart,
                   opOutcome, taskRet, completed, waited, results, errors>>
    /\ UNCHANGED <<varsE, varsC>>

(* A woken waiter whose processor never suspends.                          *)
TaskResumeSync(i, o) ==
    /\ bpc = "gather"
    /\ i \in Indices
    /\ tpc[i] = "woken"
    /\ invoked' = [invoked EXCEPT ![i] = @ + 1]
    /\ Finish(i, o, sem_value, sem_waiters, tpc)
    /\ UNCHANGED <<items, concurrency, bpc, nextStart, results, errors>>
    /\ UNCHANGED <<varsE, varsC>>

(* The suspended processor of task i completes (returns or raises).  A     *)
(* suspended coroutine is resumed only after the first steps of all tasks. *)
OpComplete(i, o) ==
    /\ bpc = "gather"
    /\ i \in Indices
    /\ tpc[i] = "running"
    /\ nextStart = items
    /\ Finish(i, o, sem_value, sem_waiters, tpc)
    /\ UNCHANGED <<items, concurrency, bpc, nextStart, invoked, results, errors>>
    /\ UNCHANGED <<varsE, varsC>>

(* The operation of running task i is cancelled: CancelledError passes     *)
(* through 'except Exception' and 'async with semaphore' releases.         *)
OpCancelled(i) ==
    /\ bpc = "gather"
    /\ i \in Indices
    /\ tpc[i] = "running"
    /\ nextStart = items
    /\ Finish(i, "cancelled", sem_value, sem_waiters, tpc)
    /\ UNCHANGED <<items, concurrency, bpc, nextStart, invoked, results, errors>>
    /\ UNCHANGED <<varsE, varsC>>

(* A gather entry the loop of lines 281-288 cannot categorise: a           *)
(* CancelledError is no Exception instance and result['success'] on it     *)
(* raises TypeError.                                                       *)
Unsubscriptable(batch_results) ==
    \E k \in 1 .. Len(batch_results) : batch_results[k].kind = "cancelled"

(* gather is done: categorise and return (lines 278-291).                  *)
ProcessBatchReturn ==
    /\ bpc = "gather"
    /\ \A i \in Indices : tpc[i] = "done"
    /\ IF Unsubscriptable(GatherResults(taskRet, items))
       THEN /\ bpc' = "raised"
            /\ UNCHANGED <<results, errors>>
       ELSE /\ LET c == Categorize(GatherResults(taskRet, items)) IN
                 /\ results' = c.results
                 /\ errors' = c.errors
            /\ bpc' = "returned"
    /\ UNCHANGED <<items, concurrency, sem_value, sem_waiters, tpc, nextStart,
                   invoked, opOutcome, taskRet, completed, waited>>
    /\ UNCHANGED <<varsE, varsC>>

(* --------------------------- request executor -------------------------- *)
(* The retry decorator of lines 99-103 and the Retry-After default.        *)
StopAfterAttempt == 3
WaitMultiplier == 1
WaitMin == 1
WaitMax == 10
DefaultRetryAfter == 60
DefaultMaxRetries == 3
DefaultRetryDelay == 1

NoMsg == "(absent)"
HttpErrorStatuses == {500}
Messages == {NoMsg, "bad limit"}
RetryAfterHeaders == {"(absent)", "2", "soon"}
IoTimes == {0, 1}
CeilingArgs == {DefaultMaxRetries, 5}

(* What the transport can answer to one exchange: status 0 stands for a    *)
(* network or timeout failure raised by session.request / response.json.   *)
NetFail == [status |-> 0, success |-> FALSE, msg |-> NoMsg, retry_after |-> "(absent)"]
Resp429(h) == [status |-> 429, success |-> FALSE, msg |-> NoMsg, retry_after |-> h]
RespHttp(s, m) == [status |-> s, success |-> FALSE, msg |-> m, retry_after |-> "(absent)"]
RespApiFail(m) == [status |-> 200, success |-> FALSE, msg |-> m, retry_after |-> "(absent)"]
RespOk == [status |-> 200, success |-> TRUE, msg |-> NoMsg, retry_after |-> "(absent)"]

Responses ==
    {NetFail, RespOk}
    \cup {Resp429(h) : h \in RetryAfterHeaders}
    \cup {RespHttp(s, m) : s \in HttpErrorStatuses, m \in Messages}
    \cup {RespApiFail(m) : m \in Messages}

(* ClientStats() of lines 30-36.                                           *)
ClientStats == [requests |-> 0, errors |-> 0, total_time |-> 0, retries |-> 0]

(* Lines 106-107: self.stats.requests += 1 at the start of every run of    *)
(* the decorated body.                                                     *)
CountRequestLostUpdate(st) == [st EXCEPT !.requests = ClientStats.requests + 1]

CountRequest(st) == [st EXCEPT !.requests = @ + 1]

(* Lines 118-119: duration of a received response.                         *)
TrackTiming(st, duration) == [st EXCEPT !.total_time = @ + duration]

(* Lines 147-150: the except block.                                        *)
ExceptBlock(st, duration) ==
    [st EXCEPT !.errors = @ + 1, !.total_time = @ + duration]

CountRetryNever(st) == st

(* Line 126.                                                               *)
CountRetry(st) == [st EXCEPT !.retries = @ + 1]

(* int(response.headers.get('Retry-After', 60)): -1 stands for ValueError. *)
ParseFailed == -1
ParseRetryAfter(h) ==
    CASE h = "(absent)" -> DefaultRetryAfter
      [] h = "2" -> 2
      [] OTHER -> ParseFailed

(* wait_exponential(multiplier=1, min=1, max=10) after the given attempt.  *)
Max2(a, b) == IF a >= b THEN a ELSE b
Min2(a, b) == IF a <= b THEN a ELSE b
WaitExponential(attempt) ==
    Max2(Max2(0, WaitMin), Min2(WaitMultiplier * 2 ^ (attempt - 1), WaitMax))

(* Exceptions.                                                             *)
NoOutcome == [type |-> "none", status |-> 0, message |-> "", cause |-> "none"]
Returned == [type |-> "return", status |-> 0, message |-> "", cause |-> "none"]
ClientError == [type |-> "ClientError", status |-> 0, message |-> "", cause |-> "none"]
ValueError == [type |-> "ValueError", status |-> 0, message |-> "", cause |-> "none"]
CancelledError ==
    [type |-> "CancelledError", status |-> 0, message |-> "", cause |-> "none"]

(* Lines 130-137.                                                          *)
ClientResponseError(r) ==
    [type |-> "ClientResponseError", status |-> r.status,
     message |-> IF r.msg = NoMsg THEN "HTTP " \o ToString(r.status) ELSE r.msg,
     cause |-> "none"]

(* Lines 140-142.                                                          *)
RuntimeErrorNoMessage(r) ==
    [type |-> "RuntimeError", status |-> 0, message |-> "API Error", cause |-> "none"]

RuntimeError(r) ==
    [type |-> "RuntimeError", status |-> 0,
     message |-> "API Error: " \o (IF r.msg = NoMsg THEN "Unknown API error" ELSE r.msg),
     cause |-> "none"]

(* tenacity's RetryError, raised when the stop condition is met; it wraps  *)
(* the exception of the last attempt.                                      *)
RetryError(e) ==
    [type |-> "RetryError", status |-> e.status, message |-> e.message,
     cause |-> e.type]

(* retry_if_exception_type((aiohttp.ClientError, asyncio.TimeoutError)):   *)
(* aiohttp.ClientResponseError is a subclass of aiohttp.ClientError.       *)
Retriable(e) == e.type \in {"ClientError", "ClientResponseError", "TimeoutError"}

Top(stk) == stk[Len(stk)]
Pop(stk) == SubSeq(stk, 1, Len(stk) - 1)

(* Exception e leaves the body of the innermost invocation (its except     *)
(* block has run).  The decorator either schedules another attempt or      *)
(* raises to the caller; a caller that is itself an enclosing invocation   *)
(* (line 127) runs its own except block and the same decision again.       *)
RECURSIVE Raise(_, _, _, _)
Raise(stk, st, e, now) ==
    IF Retriable(e) /\ Top(stk).attempt < StopAfterAttempt
    THEN [stack |-> stk, stats |-> st, pc |-> "backoff",
          wait |-> WaitExponential(Top(stk).attempt), outcome |-> NoOutcome]
    ELSE LET out == IF Retriable(e) THEN RetryError(e) ELSE e
             rest == Pop(stk) IN
         IF rest = <<>>
         THEN [stack |-> rest, stats |-> st, pc |-> "done", wait |-> 0,
               outcome |-> out]
         ELSE Raise(rest, ExceptBlock(st, now - Top(rest).start), out, now)

(* Lines 114-152 for response r received at time now by the innermost      *)
(* invocation.                                                             *)
HandleResponse(stk, st, r, now) ==
    LET duration == now - Top(stk).start
        timed == TrackTiming(st, duration) IN
    IF r.status = 0
    THEN Raise(stk, ExceptBlock(st, duration), ClientError, now)
    ELSE IF r.status = 429
    THEN IF ParseRetryAfter(r.retry_after) = ParseFailed
         THEN Raise(stk, ExceptBlock(timed, duration), ValueError, now)
         ELSE [stack |-> stk, stats |-> timed, pc |-> "sleep429",
               wait |-> ParseRetryAfter(r.retry_after), outcome |-> NoOutcome]
    ELSE IF r.status >= 400
    THEN Raise(stk, ExceptBlock(timed, duration), ClientResponseError(r), now)
    ELSE IF ~r.success
    THEN Raise(stk, ExceptBlock(timed, duration), RuntimeError(r), now)
    ELSE [stack |-> <<>>, stats |-> timed, pc |-> "done", wait |-> 0,
          outcome |-> Returned]

(* The kind of a response, as lines 114-145 tell them apart.               *)
Kind(r) ==
    IF r.status = 0 THEN "net"
    ELSE IF r.status = 429 THEN "limited"
    ELSE IF r.status >= 400 THEN "http"
    ELSE IF ~r.success THEN "api" ELSE "ok"

NothingSeen == [net |-> 0, limited |-> 0, http |-> 0, api |-> 0, ok |-> 0]

(* The time at which a sleep of w units entered at time now returns        *)
(* (asyncio.sleep at line 125, the decorator's sleep between attempts).    *)
SleepSkipped(now, w) == now

SleepEnd(now, w) == now + w

(* A run of the decorated body up to its first await (lines 106-114).      *)
EnterBody(c, stk, st) ==
    /\ stack' = [stack EXCEPT ![c] = stk]
    /\ stats' = CountRequest(st)
    /\ exchanges' = [exchanges EXCEPT ![c] = @ + 1]
    /\ cpc' = [cpc EXCEPT ![c] = "io"]
    /\ wait' = [wait EXCEPT ![c] = 0]

(* A caller awaits self._make_request(...): first attempt of the call.     *)
(* Calls are issued on an open session only.                               *)
MakeRequest(c) ==
    /\ c \in calls
    /\ cpc[c] = "idle"
    /\ session = "open"
    /\ EnterBody(c, <<[attempt |-> 1, start |-> clock[c]]>>, stats)
    /\ UNCHANGED <<max_retries, retry_delay, calls, clock, seen, last, slept, transport,
                   callOutcome, ioTime, readyAt, rateLimitCap>>
    /\ UNCHANGED <<varsB, varsC>>

(* The exchange of call c ends after d time units with response r.         *)
Respond(c, r, d) ==
    /\ c \in calls
    /\ cpc[c] = "io"
    /\ r \in transport
    /\ r.status = 429 => seen[c].limited < rateLimitCap
    /\ LET h == HandleResponse(stack[c], stats, r, clock[c] + d) IN
         /\ stack' = [stack EXCEPT ![c] = h.stack]
         /\ stats' = h.stats
         /\ cpc' = [cpc EXCEPT ![c] = h.pc]
         /\ wait' = [wait EXCEPT ![c] = h.wait]
         /\ callOutcome' = [callOutcome EXCEPT ![c] = h.outcome]
    /\ clock' = [clock EXCEPT ![c] = @ + d]
    /\ seen' = [seen EXCEPT ![c][Kind(r)] = @ + 1]
    /\ last' = [last EXCEPT ![c] = r]
    /\ ioTime' = [ioTime EXCEPT ![c] = @ + d]
    /\ readyAt' = [readyAt EXCEPT ![c] =
                     clock[c] + d + HandleResponse(stack[c], stats, r, clock[c] + d).wait]
    /\ UNCHANGED <<max_retries, retry_delay, calls, exchanges, slept, transport, rateLimitCap>>
    /\ UNCHANGED <<varsB, varsC>>

(* asyncio.sleep(retry_after) is over: lines 126-127, the recursive call   *)
(* runs up to its own first await.                                         *)
RateLimitResume(c) ==
    /\ c \in calls
    /\ cpc[c] = "sleep429"
    /\ clock' = [clock EXCEPT ![c] = SleepEnd(@, wait[c])]
    /\ slept' = [slept EXCEPT ![c] = @ + wait[c]]
    /\ EnterBody(c, Append(stack[c], [attempt |-> 1,
                                      start |-> SleepEnd(clock[c], wait[c])]),
                 CountRetry(stats))
    /\ UNCHANGED <<max_retries, retry_delay, calls, seen, last, transport, callOutcome,
                   ioTime, readyAt, rateLimitCap>>
    /\ UNCHANGED <<varsB, varsC>>

(* The decorator's backoff sleep is over: next attempt of the innermost    *)
(* invocation.                                                             *)
BackoffResume(c) ==
    /\ c \in calls
    /\ cpc[c] = "backoff"
    /\ clock' = [clock EXCEPT ![c] = SleepEnd(@, wait[c])]
    /\ EnterBody(c, Append(Pop(stack[c]),
                           [attempt |-> Top(stack[c]).attempt + 1,
                            start |-> SleepEnd(clock[c], wait[c])]),
                 stats)
    /\ UNCHANGED <<max_retries, retry_delay, calls, seen, last, slept, transport, callOutcome,
                   ioTime, readyAt, rateLimitCap>>
    /\ UNCHANGED <<varsB, varsC>>

(* The task awaiting call c is cancelled while the call is suspended in    *)
(* the exchange, in the rate-limit sleep or in the backoff sleep.          *)
(* CancelledError is a BaseException: 'except Exception' (line 147) does   *)
(* not catch it in any enclosing invocation and the decorator does not     *)
(* retry it, so it reaches the caller with self.stats untouched.           *)
Cancel(c) ==
    /\ c \in calls
    /\ cpc[c] \in {"io", "sleep429", "backoff"}
    /\ cpc' = [cpc EXCEPT ![c] = "done"]
    /\ stack' = [stack EXCEPT ![c] = <<>>]
    /\ wait' = [wait EXCEPT ![c] = 0]
    /\ callOutcome' = [callOutcome EXCEPT ![c] = CancelledError]
    /\ UNCHANGED <<max_retries, retry_delay, calls, stats, clock, exchanges, seen, last,
                   slept, transport, ioTime, readyAt, rateLimitCap>>
    /\ UNCHANGED <<varsB, varsC>>

(* ------------------------- statistics and session ---------------------- *)
(* round(x, n) of the quotient a / b, as an integer count of the last kept *)
(* decimal: to nearest, ties to even.                                      *)
RoundDiv(a, b) ==
    LET q == a \div b
        r == a % b IN
    IF 2 * r < b THEN q
    ELSE IF 2 * r > b THEN q + 1
    ELSE IF q % 2 = 0 THEN q ELSE q + 1

(* What a ZeroDivisionError would show as.                                 *)
DivisionError == -2

AverageUnguarded(st) ==
    IF st.requests = 0 THEN DivisionError
    ELSE RoundDiv(st.total_time * 10000, st.requests)

(* Lines 36-38 and 299: round(average_response_time * 1000, 1), in tenths  *)
(* of a millisecond; total_time is in seconds.                             *)
AverageResponseTime(st) ==
    IF st.requests > 0 THEN RoundDiv(st.total_time * 10000, st.requests) ELSE 0

(* Lines 40-42 and 300: round(error_rate, 2), in hundredths of a percent.  *)
ErrorRate(st) ==
    IF st.requests > 0 THEN RoundDiv(st.errors * 10000, st.requests) ELSE 0

(* The dict of lines 295-302; total_time in hundredths of a second.        *)
PerformanceStats(st) ==
    [total_requests |-> st.requests,
     total_errors |-> st.errors,
     total_retries |-> st.retries,
     average_response_time |-> AverageResponseTime(st),
     error_rate |-> ErrorRate(st),
     total_time |-> st.total_time * 100]

(* get_performance_stats(): synchronous, reads self.stats.                 *)
GetPerformanceStats ==
    /\ perf' = PerformanceStats(stats)
    /\ snapAt' = resets
    /\ UNCHANGED <<session, scope, resets>>
    /\ UNCHANGED <<varsB, varsE>>

(* reset_stats(): self.stats = ClientStats() (line 306).                   *)
ResetStats ==
    /\ resets < MaxResets
    /\ stats' = ClientStats
    /\ resets' = resets + 1
    /\ UNCHANGED <<max_retries, retry_delay, calls, cpc, stack, wait, clock, exchanges, seen,
                   last, slept, transport, callOutcome, ioTime, readyAt,
                   rateLimitCap>>
    /\ UNCHANGED <<session, scope, perf, snapAt>>
    /\ UNCHANGED varsB

(* close(), lines 94-97: an open session is closed, a closed one is left.  *)
CloseSession(s) == IF s = "open" THEN "closed" ELSE s

(* 'async with client' is entered: __aenter__ returns self.                *)
AEnter ==
    /\ scope = "outside"
    /\ session = "open"
    /\ scope' = "inside"
    /\ UNCHANGED <<session, resets, perf, snapAt>>
    /\ UNCHANGED <<varsB, varsE>>

ExitPaths == {"normal", "error", "cancelled"}

ScopeExitCloseOnReturn(path) ==
    /\ scope = "inside"
    /\ path \in ExitPaths
    /\ \A c \in calls : cpc[c] \in {"idle", "done"}
    /\ session' = IF path = "normal" THEN CloseSession(session) ELSE session
    /\ scope' = path
    /\ UNCHANGED <<resets, perf, snapAt>>
    /\ UNCHANGED <<varsB, varsE>>

(* The block is left by the given path: the body ended, an exception left  *)
(* it, or the task was cancelled in it.  Calls awaited in the body are     *)
(* over by then.  __aexit__ runs on each path and awaits close().          *)
ScopeExit(path) ==
    /\ scope = "inside"
    /\ path \in ExitPaths
    /\ \A c \in calls : cpc[c] \in {"idle", "done"}
    /\ session' = CloseSession(session)
    /\ scope' = path
    /\ UNCHANGED <<resets, perf, snapAt>>
    /\ UNCHANGED <<varsB, varsE>>

ZeroPerf == [total_requests |-> 0, total_errors |-> 0, total_retries |-> 0,
             average_response_time |-> 0, error_rate |-> 0, total_time |-> 0]

(* No snapshot has been taken yet.                                         *)
NoPerf == [total_requests |-> -1, total_errors |-> -1, total_retries |-> -1,
           average_response_time |-> -1, error_rate |-> -1, total_time |-> -1]

(* ------------------------------ specifications ------------------------- *)
(* One batch run with an abstract processor; no request is issued.         *)
InitBatch ==
    /\ items \in 0 .. MaxItems
    /\ concurrency \in -1 .. MaxConcurrency
    /\ bpc = "call"
    /\ sem_value = 0
    /\ sem_waiters = <<>>
    /\ tpc = [i \in Indices |-> "none"]
    /\ nextStart = 0
    /\ invoked = [i \in Indices |-> 0]
    /\ opOutcome = [i \in Indices |-> "none"]
    /\ taskRet = [i \in Indices |-> NoRet]
    /\ completed = <<>>
    /\ waited = {}
    /\ results = <<>>
    /\ errors = <<>>
    /\ max_retries = DefaultMaxRetries
    /\ retry_delay = DefaultRetryDelay
    /\ calls = {}
    /\ stats = ClientStats
    /\ cpc = <<>>
    /\ stack = <<>>
    /\ wait = <<>>
    /\ clock = <<>>
    /\ exchanges = <<>>
    /\ seen = <<>>
    /\ last = <<>>
    /\ slept = <<>>
    /\ transport = {}
    /\ callOutcome = <<>>
    /\ ioTime = <<>>
    /\ readyAt = <<>>
    /\ rateLimitCap = Max429
    /\ session = "open"
    /\ scope = "outside"
    /\ resets = 0
    /\ perf = NoPerf
    /\ snapAt = 0

NextBatch ==
    \/ ProcessBatchCall
    \/ \E i \in Indices : TaskStart(i)
    \/ \E i \in Indices, o \in Outcomes : TaskStartSync(i, o)
    \/ \E i \in Indices : TaskResume(i)
    \/ \E i \in Indices, o \in Outcomes : TaskResumeSync(i, o)
    \/ \E i \in Indices, o \in Outcomes : OpComplete(i, o)
    \/ ProcessBatchReturn

SpecBatch == InitBatch /\ [][NextBatch]_vars

(* The same batch run under fair scheduling: the event loop runs every     *)
(* ready task and every operation in flight comes to its end.              *)
SpecBatchFair == InitBatch /\ [][NextBatch]_vars /\ WF_vars(NextBatch)

(* One batch run in which running operations may also be cancelled.        *)
NextBatchCancel ==
    \/ ProcessBatchCall
    \/ \E i \in Indices : TaskStart(i)
    \/ \E i \in Indices, o \in Outcomes : TaskStartSync(i, o)
    \/ \E i \in Indices : TaskResume(i)
    \/ \E i \in Indices, o \in Outcomes : TaskResumeSync(i, o)
    \/ \E i \in Indices, o \in Outcomes : OpComplete(i, o)
    \/ \E i \in Indices : OpCancelled(i)
    \/ ProcessBatchReturn

SpecBatchCancel == InitBatch /\ [][NextBatchCancel]_vars

(* One logical call on a fresh client, against a transport that may answer *)
(* anything; no batch is running.                                          *)
InitExec ==
    /\ items = 0
    /\ concurrency = 1
    /\ bpc = "idle"
    /\ sem_value = 0
    /\ sem_waiters = <<>>
    /\ tpc = <<>>
    /\ nextStart = 0
    /\ invoked = <<>>
    /\ opOutcome = <<>>
    /\ taskRet = <<>>
    /\ completed = <<>>
    /\ waited = {}
    /\ results = <<>>
    /\ errors = <<>>
    /\ max_retries \in CeilingArgs
    /\ retry_delay = DefaultRetryDelay
    /\ calls = {1}
    /\ stats = ClientStats
    /\ cpc = [c \in calls |-> "idle"]
    /\ stack = [c \in calls |-> <<>>]
    /\ wait = [c \in calls |-> 0]
    /\ clock = [c \in calls |-> 0]
    /\ exchanges = [c \in calls |-> 0]
    /\ seen = [c \in calls |-> NothingSeen]
    /\ last = [c \in calls |-> RespOk]
    /\ slept = [c \in calls |-> 0]
    /\ transport = Responses
    /\ callOutcome = [c \in calls |-> NoOutcome]
    /\ ioTime = [c \in calls |-> 0]
    /\ readyAt = [c \in calls |-> 0]
    /\ rateLimitCap = Max429
    /\ session = "open"
    /\ scope = "outside"
    /\ resets = 0
    /\ perf = NoPerf
    /\ snapAt = 0

NextExec ==
    \/ \E c \in calls : MakeRequest(c)
    \/ \E c \in calls, r \in Responses, d \in IoTimes : Respond(c, r, d)
    \/ \E c \in calls : RateLimitResume(c)
    \/ \E c \in calls : BackoffResume(c)

SpecExec == InitExec /\ [][NextExec]_vars

(* One call against a server that answers 429 at most MaxRateLimited times *)
(* (the header an integer or absent) and then succeeds.  Every enabled     *)
(* step is eventually taken: the event loop resumes a coroutine whose      *)
(* sleep or exchange is over.                                              *)
InitRateLimit ==
    /\ items = 0
    /\ concurrency = 1
    /\ bpc = "idle"
    /\ sem_value = 0
    /\ sem_waiters = <<>>
    /\ tpc = <<>>
    /\ nextStart = 0
    /\ invoked = <<>>
    /\ opOutcome = <<>>
    /\ taskRet = <<>>
    /\ completed = <<>>
    /\ waited = {}
    /\ results = <<>>
    /\ errors = <<>>
    /\ max_retries = DefaultMaxRetries
    /\ retry_delay = DefaultRetryDelay
    /\ calls = {1}
    /\ stats = ClientStats
    /\ cpc = [c \in calls |-> "idle"]
    /\ stack = [c \in calls |-> <<>>]
    /\ wait = [c \in calls |-> 0]
    /\ clock = [c \in calls |-> 0]
    /\ exchanges = [c \in calls |-> 0]
    /\ seen = [c \in calls |-> NothingSeen]
    /\ last = [c \in calls |-> RespOk]
    /\ slept = [c \in calls |-> 0]
    /\ transport = {Resp429("2"), Resp429("(absent)"), RespOk}
    /\ callOutcome = [c \in calls |-> NoOutcome]
    /\ ioTime = [c \in calls |-> 0]
    /\ readyAt = [c \in calls |-> 0]
    /\ rateLimitCap = MaxRateLimited
    /\ session = "open"
    /\ scope = "outside"
    /\ resets = 0
    /\ perf = NoPerf
    /\ snapAt = 0

NextRateLimit ==
    \/ \E c \in calls : MakeRequest(c)
    \/ \E c \in calls, r \in Responses, d \in IoTimes : Respond(c, r, d)
    \/ \E c \in calls : RateLimitResume(c)

SpecRateLimit ==
    InitRateLimit /\ [][NextRateLimit]_vars /\ WF_vars(NextRateLimit)

(* One call on a client constructed with a retry ceiling and a retry delay *)
(* of the caller's choice, against a server that fails at the network      *)
(* level, rate-limits or succeeds.                                         *)
ConfiguredCeilings == {2, DefaultMaxRetries}
ConfiguredDelays == {DefaultRetryDelay, 2}

InitConfigured ==
    /\ items = 0
    /\ concurrency = 1
    /\ bpc = "idle"
    /\ sem_value = 0
    /\ sem_waiters = <<>>
    /\ tpc = <<>>
    /\ nextStart = 0
    /\ invoked = <<>>
    /\ opOutcome = <<>>
    /\ taskRet = <<>>
    /\ completed = <<>>
    /\ waited = {}
    /\ results = <<>>
    /\ errors = <<>>
    /\ max_retries \in ConfiguredCeilings
    /\ retry_delay \in ConfiguredDelays
    /\ calls = {1}
    /\ stats = ClientStats
    /\ cpc = [c \in calls |-> "idle"]
    /\ stack = [c \in calls |-> <<>>]
    /\ wait = [c \in calls |-> 0]
    /\ clock = [c \in calls |-> 0]
    /\ exchanges = [c \in calls |-> 0]
    /\ seen = [c \in calls |-> NothingSeen]
    /\ last = [c \in calls |-> RespOk]
    /\ slept = [c \in calls |-> 0]
    /\ transport = {NetFail, Resp429("2"), RespOk}
    /\ callOutcome = [c \in calls |-> NoOutcome]
    /\ ioTime = [c \in calls |-> 0]
    /\ readyAt = [c \in calls |-> 0]
    /\ rateLimitCap = Max429
    /\ session = "open"
    /\ scope = "outside"
    /\ resets = 0
    /\ perf = NoPerf
    /\ snapAt = 0

NextConfigured ==
    \/ \E c \in calls : MakeRequest(c)
    \/ \E c \in calls, r \in Responses, d \in IoTimes : Respond(c, r, d)
    \/ \E c \in calls : RateLimitResume(c)
    \/ \E c \in calls : BackoffResume(c)

SpecConfigured == InitConfigured /\ [][NextConfigured]_vars

(* One client used in an 'async with' block: calls against a server that   *)
(* does not rate-limit and answers after one time unit, cancellation of a  *)
(* suspended call, reset_stats and get_performance_stats at any point, and *)
(* every way out of the block.                                             *)
ClientCalls == {1, 2}

InitClient ==
    /\ items = 0
    /\ concurrency = 1
    /\ bpc = "idle"
    /\ sem_value = 0
    /\ sem_waiters = <<>>
    /\ tpc = <<>>
    /\ nextStart = 0
    /\ invoked = <<>>
    /\ opOutcome = <<>>
    /\ taskRet = <<>>
    /\ completed = <<>>
    /\ waited = {}
    /\ results = <<>>
    /\ errors = <<>>
    /\ max_retries = DefaultMaxRetries
    /\ retry_delay = DefaultRetryDelay
    /\ calls = ClientCalls
    /\ stats = ClientStats
    /\ cpc = [c \in calls |-> "idle"]
    /\ stack = [c \in calls |-> <<>>]
    /\ wait = [c \in calls |-> 0]
    /\ clock = [c \in calls |-> 0]
    /\ exchanges = [c \in calls |-> 0]
    /\ seen = [c \in calls |-> NothingSeen]
    /\ last = [c \in calls |-> RespOk]
    /\ slept = [c \in calls |-> 0]
    /\ transport = {RespOk, RespApiFail("bad limit"), NetFail}
    /\ callOutcome = [c \in calls |-> NoOutcome]
    /\ ioTime = [c \in calls |-> 0]
    /\ readyAt = [c \in calls |-> 0]
    /\ rateLimitCap = Max429
    /\ session = "open"
    /\ scope = "outside"
    /\ resets = 0
    /\ perf = NoPerf
    /\ snapAt = 0

NextClient ==
    \/ AEnter
    \/ \E c \in calls : MakeRequest(c)
    \/ \E c \in calls, r \in Responses : Respond(c, r, 1)
    \/ \E c \in calls : BackoffResume(c)
    \/ \E c \in calls : Cancel(c)
    \/ ResetStats
    \/ GetPerformanceStats
    \/ \E path \in ExitPaths : ScopeExit(path)

SpecClient == InitClient /\ [][NextClient]_vars

(* NumCalls concurrent calls on one fresh client, interleaved at their     *)
(* suspension points, against a server that does not rate-limit: the       *)
(* transport answers each exchange at once with success, an API failure or *)
(* a network failure.                                                      *)
InitConc ==
    /\ items = 0
    /\ concurrency = 1
    /\ bpc = "idle"
    /\ sem_value = 0
    /\ sem_waiters = <<>>
    /\ tpc = <<>>
    /\ nextStart = 0
    /\ invoked = <<>>
    /\ opOutcome = <<>>
    /\ taskRet = <<>>
    /\ completed = <<>>
    /\ waited = {}
    /\ results = <<>>
    /\ errors = <<>>
    /\ max_retries = DefaultMaxRetries
    /\ retry_delay = DefaultRetryDelay
    /\ calls = 1 .. NumCalls
    /\ stats = ClientStats
    /\ cpc = [c \in calls |-> "idle"]
    /\ stack = [c \in calls |-> <<>>]
    /\ wait = [c \in calls |-> 0]
    /\ clock = [c \in calls |-> 0]
    /\ exchanges = [c \in calls |-> 0]
    /\ seen = [c \in calls |-> NothingSeen]
    /\ last = [c \in calls |-> RespOk]
    /\ slept = [c \in calls |-> 0]
    /\ transport = {RespOk, RespApiFail("bad limit"), NetFail}
    /\ callOutcome = [c \in calls |-> NoOutcome]
    /\ ioTime = [c \in calls |-> 0]
    /\ readyAt = [c \in calls |-> 0]
    /\ rateLimitCap = Max429
    /\ session = "open"
    /\ scope = "outside"
    /\ resets = 0
    /\ perf = NoPerf
    /\ snapAt = 0

NextConc ==
    \/ \E c \in calls : MakeRequest(c)
    \/ \E c \in calls, r \in Responses : Respond(c, r, 0)
    \/ \E c \in calls : BackoffResume(c)

SpecConc == InitConc /\ [][NextConc]_vars

(* ------------------------- claims: batch dispatcher -------------------- *)
InFlight == Cardinality({i \in Indices : tpc[i] = "running"})
IndexSet(seq) == {seq[k].index : k \in 1 .. Len(seq)}

(* C1: when process_batch returns, len(results) + len(errors) equals the   *)
(* number of items and the indices carried by the entries are exactly      *)
(* 0 .. N-1, none of them twice.                                           *)
C1_BatchAccounting ==
    bpc = "returned" =>
        /\ Len(results) + Len(errors) = items
        /\ IndexSet(results) \cup IndexSet(errors) = Indices
        /\ IndexSet(results) \cap IndexSet(errors) = {}
        /\ Cardinality(IndexSet(results)) = Len(results)
        /\ Cardinality(IndexSet(errors)) = Len(errors)

C1_Witness ==
    /\ bpc = "returned"
    /\ items >= 2
    /\ Len(results) >= 1
    /\ Len(errors) >= 1

(* C2: with concurrency >= 1 the number of processor calls started and not *)
(* yet completed never exceeds concurrency, and a step in which a task     *)
(* completes while tasks are queued hands the permit to the first queued   *)
(* task.                                                                   *)
C2_AdmitNext ==
    \A i \in Indices :
        (tpc[i] # "done" /\ tpc'[i] = "done" /\ sem_waiters # <<>>) =>
            /\ tpc'[Head(sem_waiters)] = "woken"
            /\ sem_waiters' = Tail(sem_waiters)

C2_BoundedInFlight ==
    /\ [](concurrency >= 1 => InFlight <= concurrency)
    /\ [][C2_AdmitNext]_varsB

C2_Witness ==
    /\ concurrency >= 1
    /\ InFlight = concurrency
    /\ \E i \in Indices : tpc[i] = "done"
    /\ \E i \in Indices : tpc[i] = "waiting"

(* C3: for concurrency <= 0 process_batch fails fast with an error and no  *)
(* processor call is made; it neither waits on gather nor returns a result.*)
C3_FailFast ==
    (concurrency <= 0 /\ bpc # "call") =>
        /\ bpc = "raised"
        /\ \A i \in Indices : invoked[i] = 0

(* C9: a failing item is recorded in errors under its own index, every     *)
(* other item is still called once and runs to its own completion, and     *)
(* process_batch never raises once an item has been dispatched.            *)
C9_FailureIsolated ==
    /\ bpc = "returned" =>
          \A i \in Indices :
              /\ invoked[i] = 1
              /\ tpc[i] = "done"
              /\ opOutcome[i] = "fail" => i \in IndexSet(errors)
              /\ opOutcome[i] = "ok" => i \in IndexSet(results)
    /\ bpc = "raised" => \A i \in Indices : opOutcome[i] = "none"

C9_Witness ==
    /\ bpc = "returned"
    /\ \E i, j \in Indices : opOutcome[i] = "fail" /\ opOutcome[j] = "ok" /\ i < j
    /\ \E i, j \in Indices : opOutcome[i] = "fail" /\ opOutcome[j] = "ok" /\ j < i

(* C16: the processor is called at most once per index at any time, and   *)
(* exactly once for every index by the time process_batch returns,         *)
(* whether the call succeeded or failed.                                   *)
C16_InvokedOnce ==
    /\ \A i \in Indices : invoked[i] <= 1
    /\ \A i \in Indices : opOutcome[i] # "none" => invoked[i] = 1
    /\ bpc = "returned" => \A i \in Indices : invoked[i] = 1

C16_Witness ==
    /\ bpc = "returned"
    /\ items >= 2
    /\ \E i \in Indices : opOutcome[i] = "fail" /\ invoked[i] = 1
    /\ \E i \in Indices : opOutcome[i] = "ok" /\ invoked[i] = 1

(* C17: permits are conserved: the free permits plus the tasks holding one *)
(* (operation running, or permit handed over by release and the task not   *)
(* yet resumed) always equal concurrency, an operation runs only with a    *)
(* permit, and once every task has finished, by success, failure or        *)
(* cancellation, all permits are free again.                               *)
Holders == Cardinality({i \in Indices : tpc[i] \in {"running", "woken"}})

C23_BatchReturns ==
    /\ (concurrency >= 1) => <>(bpc = "returned")
    /\ \A i \in 0 .. MaxItems :
          (concurrency >= 1 /\ i \in Indices /\ tpc[i] = "waiting")
              ~> (i \in Indices /\ tpc[i] = "done" /\ invoked[i] = 1)

C23_Witness ==
    /\ bpc = "returned"
    /\ concurrency >= 1
    /\ items > concurrency
    /\ Cardinality(waited) >= 2
    /\ \E i \in waited : opOutcome[i] = "fail"
    /\ \E i \in waited : opOutcome[i] = "ok"

(* C19 as claimed: the entries of results, and of errors, stand in the     *)
(* order in which their items completed.                                   *)
Position(seq, x) == CHOOSE k \in 1 .. Len(seq) : seq[k] = x

InCompletionOrder(seq) ==
    \A a, b \in 1 .. Len(seq) :
        a < b => Position(completed, seq[a].index) < Position(completed, seq[b].index)

C19_CompletionOrder ==
    bpc = "returned" => InCompletionOrder(results) /\ InCompletionOrder(errors)

(* C19 as amended: the entries of results, and of errors, stand in input   *)
(* order (ascending index), whatever the order of completion.              *)
InInputOrder(seq) ==
    \A a, b \in 1 .. Len(seq) : a < b => seq[a].index < seq[b].index

C19_InputOrder ==
    bpc = "returned" => InInputOrder(results) /\ InInputOrder(errors)

C19_Witness ==
    /\ bpc = "returned"
    /\ \E a, b \in 1 .. Len(results) :
          /\ a < b
          /\ Position(completed, results[b].index) < Position(completed, results[a].index)

(* ------------------------- claims: request executor -------------------- *)
OnlySeen(c, kind) ==
    /\ seen[c][kind] >= 1
    /\ \A k \in DOMAIN NothingSeen : k # kind => seen[c][k] = 0

(* C4: with a transport that fails on every attempt, a call makes exactly  *)
(* max_retries exchanges and then raises the retry-exhausted error, and    *)
(* over the call stats.errors and stats.requests each grow by exactly 1.   *)
C4_ExhaustsCeilingOnce ==
    \A c \in calls :
        (cpc[c] = "done" /\ OnlySeen(c, "net")) =>
            /\ exchanges[c] = max_retries
            /\ callOutcome[c].type = "RetryError"
            /\ stats.errors = 1
            /\ stats.requests = 1

(* C5: a call answered by one 429 with Retry-After: 2 and then by a        *)
(* success returns normally with stats.retries = 1, stats.requests = 1,    *)
(* stats.errors = 0, and at least 2 time units have passed.                *)
C5_RateLimitedOnce ==
    \A c \in calls :
        (/\ cpc[c] = "done"
         /\ seen[c] = [NothingSeen EXCEPT !.limited = 1, !.ok = 1]
         /\ slept[c] = 2) =>
            /\ callOutcome[c].type = "return"
            /\ stats.retries = 1
            /\ stats.requests = 1
            /\ stats.errors = 0
            /\ clock[c] >= 2

(* C6: over a complete call, whatever its attempts were, stats.requests    *)
(* grows by exactly 1 and stats.errors by 1 if the call failed, by 0 if it *)
(* returned.                                                               *)
C6_CountedOncePerCall ==
    \A c \in calls :
        cpc[c] = "done" =>
            /\ stats.requests = 1
            /\ stats.errors = IF callOutcome[c].type = "return" THEN 0 ELSE 1

(* C7: once a response with status >= 400 other than 429 has arrived, the  *)
(* call makes no further exchange and has raised the HTTP error carrying   *)
(* that status and the envelope's message (or "HTTP <status>").            *)
C7_HttpErrorNotRetried ==
    \A c \in calls :
        seen[c].http >= 1 =>
            /\ cpc[c] = "done"
            /\ seen[c].http = 1
            /\ Kind(last[c]) = "http"
            /\ callOutcome[c].type = "ClientResponseError"
            /\ callOutcome[c].status = last[c].status
            /\ callOutcome[c].message =
                   IF last[c].msg = NoMsg
                   THEN "HTTP " \o ToString(last[c].status)
                   ELSE last[c].msg

(* C8: once a 2xx response whose envelope says success = false has         *)
(* arrived, the call makes no further exchange and has raised the API      *)
(* error with the envelope's message; when that response is the call's     *)
(* only one, the call made one exchange, stats.errors is 1 and             *)
(* stats.retries is 0.                                                     *)
C8_ApiErrorSurfaced ==
    \A c \in calls :
        seen[c].api >= 1 =>
            /\ cpc[c] = "done"
            /\ seen[c].api = 1
            /\ Kind(last[c]) = "api"
            /\ callOutcome[c].type = "RuntimeError"
            /\ callOutcome[c].message =
                   "API Error: " \o (IF last[c].msg = NoMsg
                                     THEN "Unknown API error"
                                     ELSE last[c].msg)
            /\ OnlySeen(c, "api") =>
                   /\ exchanges[c] = 1
                   /\ stats.errors = 1
                   /\ stats.retries = 0

C8_Witness ==
    \E c \in calls :
        /\ cpc[c] = "done"
        /\ OnlySeen(c, "api")
        /\ last[c].msg = "bad limit"
        /\ stats.errors = 1

(* C11: the step of reset_stats leaves self.stats at zero requests,        *)
(* errors, retries and total_time, and the snapshot of that state is zero  *)
(* in every field, average_response_time and error_rate included, with no  *)
(* division error.                                                         *)
C11_ResetThenSnapshot ==
    [][resets' # resets =>
          /\ stats' = [requests |-> 0, errors |-> 0, total_time |-> 0, retries |-> 0]
          /\ PerformanceStats(stats') = ZeroPerf]_vars

C11_Witness ==
    /\ resets >= 1
    /\ snapAt = resets
    /\ perf = ZeroPerf
    /\ stats = ClientStats
    /\ \A c \in calls : cpc[c] = "done"
    /\ \E c \in calls : callOutcome[c] = Returned /\ ioTime[c] > 0
    /\ \E c \in calls : callOutcome[c].type = "RuntimeError"

(* C21 as claimed: the wait before a retry is the configured base delay    *)
(* (retry_delay) doubled once per earlier retry, kept within the bounds    *)
(* of 1 and 10 time units.                                                 *)
C21_BackoffFromBaseDelay ==
    \A c \in calls :
        cpc[c] = "backoff" =>
            /\ wait[c] >= WaitMin
            /\ wait[c] <= WaitMax
            /\ wait[c] = Max2(WaitMin, Min2(retry_delay * 2 ^ (Top(stack[c]).attempt - 1),
                                            WaitMax))

(* C22 as claimed: in every state errors is at most requests, so that the  *)
(* reported error_rate is at most 100 percent, with calls and reset_stats  *)
(* interleaved in any way.                                                 *)
C22_ErrorsWithinRequests ==
    /\ stats.errors <= stats.requests
    /\ ErrorRate(stats) <= 10000

(* C12: a call answered by k 429 responses (k up to the server's cap) and  *)
(* then a success returns normally with retries = k and k + 1 exchanges,   *)
(* whatever k is, and a call whose server stops answering 429 ends.        *)
C12_RateLimitUnbounded ==
    /\ [](\A c \in calls :
            cpc[c] = "done" =>
                /\ callOutcome[c] = Returned
                /\ seen[c].ok = 1
                /\ stats.retries = seen[c].limited
                /\ exchanges[c] = seen[c].limited + 1)
    /\ <>(\A c \in calls : cpc[c] = "done")

C12_Witness ==
    \E c \in calls :
        /\ cpc[c] = "done"
        /\ callOutcome[c] = Returned
        /\ seen[c].limited = MaxRateLimited
        /\ seen[c].limited > StopAfterAttempt
        /\ stats.retries = MaxRateLimited

(* C13 as claimed: after a 429 response whose Retry-After header is absent *)
(* or no integer, the call is in its rate-limit sleep for the default 60   *)
(* time units; it has not failed.                                          *)
C13_DefaultOnBadHeader ==
    \A c \in calls :
        (/\ seen[c].limited > 0
         /\ last[c].status = 429
         /\ last[c].retry_after \notin {"2"}
         /\ cpc[c] # "io")
        => (cpc[c] = "sleep429" /\ wait[c] = DefaultRetryAfter)

(* C14: once the 'async with' block has been left, by normal return, by   *)
(* an exception or by cancellation, the session is closed.                 *)
C14_ClosedOnEveryExit ==
    scope \in ExitPaths => session = "closed"

C14_Witness ==
    /\ scope = "cancelled"
    /\ session = "closed"
    /\ \E c \in calls : callOutcome[c] = CancelledError

(* C15 as claimed: when the call is over, total_time is the sum of the     *)
(* durations of its exchanges, each counted once.                          *)
C15_TimeCountedOnce ==
    \A c \in calls : cpc[c] = "done" => stats.total_time = ioTime[c]

(* C18 as claimed: the step in which a call that has counted at least one  *)
(* request is cancelled adds one to errors and does not lower total_time.  *)
C18_CancelCounted ==
    [][\A c \in calls :
          (/\ callOutcome'[c] = CancelledError
           /\ callOutcome[c] # CancelledError
           /\ exchanges[c] >= 1)
          => (stats'.errors = stats.errors + 1 /\ stats'.total_time >= stats.total_time)]_vars

(* C20: a call has at most one exchange in flight, exactly when it is      *)
(* suspended in session.request, and every attempt starts no earlier than  *)
(* the end of the sleep that precedes it.                                  *)
Answered(c) ==
    seen[c].net + seen[c].limited + seen[c].http + seen[c].api + seen[c].ok

C20_AttemptsSequential ==
    \A c \in calls :
        /\ exchanges[c] - Answered(c) \in {0, 1}
        /\ (exchanges[c] - Answered(c) = 1) <=> (cpc[c] = "io")
        /\ cpc[c] = "io" => Top(stack[c]).start >= readyAt[c]
        /\ cpc[c] \in {"sleep429", "backoff"} => readyAt[c] = clock[c] + wait[c]

C20_Witness ==
    \E c \in calls :
        /\ cpc[c] = "io"
        /\ seen[c].net >= 1
        /\ seen[c].limited >= 1
        /\ exchanges[c] = Answered(c) + 1
        /\ readyAt[c] > 0
        /\ Top(stack[c]).start = readyAt[c]

(* C24 as claimed: a call that has received k 429 responses has entered   *)
(* at most max_retries * (k + 1) exchanges.                                *)
C24_ExchangesBounded ==
    \A c \in calls : exchanges[c] <= max_retries * (seen[c].limited + 1)

(* C10: concurrent calls lose no counter update: in every interleaving     *)
(* stats.requests is the number of attempts started so far, so when all    *)
(* the calls have completed with one attempt each it is the number of      *)
(* calls.                                                                  *)
RECURSIVE TotalExchanges(_)
TotalExchanges(cs) ==
    IF cs = {} THEN 0
    ELSE LET c == CHOOSE x \in cs : TRUE IN exchanges[c] + TotalExchanges(cs \ {c})

C10_NoLostUpdate ==
    /\ stats.requests = TotalExchanges(calls)
    /\ (\A c \in calls : cpc[c] = "done" /\ exchanges[c] = 1) =>
           stats.requests = Cardinality(calls)

C10_Witness ==
    /\ Cardinality(calls) >= 2
    /\ \A c \in calls : cpc[c] = "done" /\ exchanges[c] = 1
    /\ \E c \in calls : callOutcome[c].type = "return"
====
